---- MODULE Spec2Model ----
(***************************************************************************)
(* LogBuffer of stablyai/playwright-mcp (src/custom/log-buffer.js, held in *)
(* src/src/custom/tools/setup-page.js lines 726-1189): a session-scoped    *)
(* bounded log with retention, cursor pagination, filtering and byte caps. *)
(*                                                                         *)
(* A message is modelled by the length of its stored text and the number   *)
(* of extra characters JSON escaping adds to it; structured data by the    *)
(* length of its JSON text (0 = no data).  Timestamps are modelled by      *)
(* their length only (Date.toISOString() is always 24 characters).         *)
(*                                                                         *)
(* Where the text itself matters (redaction, stack-trace truncation) a     *)
(* message is a sequence of tokens: a punctuation character, a word of     *)
(* letters or the redaction marker; structured data is a tree of null,     *)
(* string, number, array and object nodes.  The specifications are Spec    *)
(* (any calls), SpecBulk (a buffer larger than one page), SpecText (one    *)
(* append of a text), SpecReader (a client that keeps its cursor),         *)
(* SpecPaging (a client that pages until has_more is false), SpecTool      *)
(* (the patched backend of src/unnamed/part_002, which logs its tool calls *)
(* to the buffer and serves read_log from it) and SpecRun (one call of     *)
(* runTests with its timers and child-process callbacks).                  *)
(***************************************************************************)
EXTENDS Integers, Sequences, FiniteSets, TLC

\* ------------------------------------------------------------------ bounds
\* number of append calls explored over the buffer's lifetime
MaxAppends == 3

\* events a bulk buffer holds beyond what one read may return
BulkExtra == 1

\* tokens of the longest message drawn from the token alphabet
MaxTokens == 4

\* lines of the longest stack-trace message beyond MAX_STACK_LINES
MaxExtraLines == 4

\* callTool invocations explored on one backend
MaxCalls == 3

\* data chunks the child process of runTests writes
MaxChunks == 3

\* ------------------------------------------------------- program constants
TsLen == 24
DEFAULT_TIMEOUT == 300000
SizeOverhead == 100
JsonFixedLen == 53
JsonNullLen == 4
JsonSeparatorLen == 2
DefaultMaxEvents == 10000
DefaultMaxBytes == 10485760
DefaultLimit == 200
MinLimit == 1
HardLimit == 1000
DefaultReadBytes == 256000
MinReadBytes == 1000
HardReadBytes == 1000000
WarnMessageFixedLen == 116
EmptyArrayLen == 2

LOG_LEVELS == {"debug", "info", "warn", "error"}

Max(a, b) == IF a >= b THEN a ELSE b
Min(a, b) == IF a <= b THEN a ELSE b

\* number of decimal digits of a natural number, as template literals print it
RECURSIVE Digits(_)
Digits(n) == IF n < 10 THEN 1 ELSE 1 + Digits(n \div 10)

\* ------------------------------------------------------------------ inputs
\* constructor configurations (maxEvents, maxBytes), the default included
Configs ==
  { [maxEvents |-> 0, maxBytes |-> DefaultMaxBytes],
    [maxEvents |-> 1, maxBytes |-> DefaultMaxBytes],
    [maxEvents |-> 2, maxBytes |-> DefaultMaxBytes],
    [maxEvents |-> DefaultMaxEvents, maxBytes |-> DefaultMaxBytes],
    [maxEvents |-> DefaultMaxEvents, maxBytes |-> 0],
    [maxEvents |-> DefaultMaxEvents, maxBytes |-> 800] }

\* arguments of append: level, source, message (stored length, JSON escape
\* surplus) and data (length of its JSON text, 0 when absent)
AppendInputs ==
  { [level |-> "info",  source |-> "test", msgLen |-> 9,    msgEsc |-> 0, dataLen |-> 0],
    [level |-> "error", source |-> "tool", msgLen |-> 400,  msgEsc |-> 2, dataLen |-> 60],
    [level |-> "fatal", source |-> "tool", msgLen |-> 600000, msgEsc |-> 0, dataLen |-> 0] }

VARIABLES
  config,               \* this._config
  events,               \* this._events
  seq,                  \* this._seq
  totalBytes,           \* this._totalBytes
  droppedCount,         \* this._droppedCount
  earliestRetainedSeq,  \* this._earliestRetainedSeq
  lastOp,               \* the call that produced this state
  ret,                  \* value returned by the last append
  appendCount,          \* history: number of append calls since construction
  cleared,              \* history: clear has been called
  budget,               \* append calls still to be explored
  opts,                 \* options of the last read
  res,                  \* result of the last read
  prevRes,              \* result of the read before it, when the last read continues or repeats it
  readKind,             \* "plain", "next" (cursor of the previous read) or "again" (same options)
  held,                 \* a cursor a client kept from an earlier read
  args,                 \* level, message and data passed to the last append (text specification)
  entry,                \* level, message and data of the event that append created
  seen,                 \* history: highest sequence number delivered to the reader that keeps its cursor
  calls,                \* history: parity of the number of reads of the paging client
  call,                 \* the callTool invocation of the backend: its position, tool and outcome
  run                   \* the runTests call of test_run: its timers, callbacks and result

bufVars == <<config, events, seq, totalBytes, droppedCount, earliestRetainedSeq>>
vars == <<config, events, seq, totalBytes, droppedCount, earliestRetainedSeq,
          lastOp, ret, appendCount, cleared, budget, opts, res, prevRes, readKind, held,
          args, entry, seen, calls, call, run>>

\* --------------------------------------------------------------- LogEvent
\* LogEvent._calculateSize
CalculateSize(level, source, msgLen, dataLen) ==
  TsLen + Len(level) + Len(source) + msgLen + SizeOverhead
    + (IF dataLen > 0 THEN dataLen ELSE 0)

\* new LogEvent(seq, level, source, message, data)
LogEvent(s, level, source, msgLen, msgEsc, dataLen) ==
  [seq |-> s, level |-> level, source |-> source, msgLen |-> msgLen,
   msgEsc |-> msgEsc, dataLen |-> dataLen,
   size |-> CalculateSize(level, source, msgLen, dataLen)]

\* LogEvent.toJSON followed by JSON.stringify(...).length; seq is kept beside
\* the view only to state properties, it is not part of the view
ToJSON(event, includeStructured) ==
  LET withData == includeStructured /\ event.dataLen > 0 IN
  [synthetic |-> FALSE, seq |-> event.seq, level |-> event.level,
   source |-> event.source, hasData |-> withData,
   jsonLen |-> JsonFixedLen + TsLen + Len(event.level) + Len(event.source)
                 + event.msgLen + event.msgEsc
                 + (IF withData THEN event.dataLen ELSE JsonNullLen)]

\* ---------------------------------------------------------------- cursors
\* A cursor string is modelled by what decoding finds in it: nothing (null
\* or ""), text that is no JSON object, or a JSON object with fields v and s.
NullCursor == [kind |-> "null", v |-> 0, sNum |-> FALSE, s |-> 0]
GarbageCursor == [kind |-> "notjson", v |-> 0, sNum |-> FALSE, s |-> 0]

\* base64url of {"v":2,"s":1} and of {"v":1,"s":"1"}
WrongVersionCursor == [kind |-> "json", v |-> 2, sNum |-> TRUE, s |-> 1]
TextSeqCursor == [kind |-> "json", v |-> 1, sNum |-> FALSE, s |-> 1]

\* cursor strings that are not an encoding _encodeCursor produces
MalformedCursors == {GarbageCursor, WrongVersionCursor, TextSeqCursor}

\* variant: the cursor encodes the sequence before the last one returned
EncodeCursorBefore(s) ==
  [kind |-> "json", v |-> 1, sNum |-> TRUE, s |-> IF s > 0 THEN s - 1 ELSE 0]

\* variant: the version field is not looked at
DecodeCursorAnyVersion(cursor) ==
  IF cursor.kind = "json" /\ cursor.sNum THEN cursor.s ELSE 0

\* LogBuffer._encodeCursor
EncodeCursor(s) == [kind |-> "json", v |-> 1, sNum |-> TRUE, s |-> s]

\* LogBuffer._decodeCursor
DecodeCursor(cursor) ==
  IF cursor.kind = "json" /\ cursor.v = 1 /\ cursor.sNum THEN cursor.s ELSE 0

\* ------------------------------------------------------------------- text
\* A text is a sequence of tokens: a token is one punctuation character, the
\* redaction marker, or a run of letters (a word).
REDACTED == "***REDACTED***"
MAX_STACK_LINES == 40

IsQuote(t) == t \in {"\"", "'"}
IsSpace(t) == t \in {" ", "\n"}
IsLetters(t) == t \notin {"\"", "'", " ", "\n", ":", "=", "_", "-", REDACTED}

\* the character classes of REDACTION_PATTERNS: ['":\s], [^'"], [A-Za-z0-9+/=]
InKeyGap(t) == IsQuote(t) \/ IsSpace(t) \/ t = ":"
NotQuote(t) == ~IsQuote(t)
InBase64(t) == IsLetters(t) \/ t = "="

SetMin(S) == CHOOSE x \in S : \A y \in S : x <= y
SetMax(S) == CHOOSE x \in S : \A y \in S : x >= y

\* membership of a token in a character class of the patterns, by name
InClass(x, class) ==
  CASE class = "space" -> IsSpace(x)
    [] class = "base64" -> InBase64(x)
    [] class = "keygap" -> InKeyGap(x)
    [] class = "notquote" -> NotQuote(x)

\* last index of the longest run of tokens of a class that starts at i
\* (i - 1 when t[i] is not in the class)
RunEnd(t, i, class) ==
  LET stops == {k \in i..Len(t) : ~InClass(t[k], class)} IN
  IF stops = {} THEN Len(t) ELSE SetMin(stops) - 1

\* REDACTION_PATTERNS, in the order of the source, by shape:
\*   scheme  /Basic\s+[A-Za-z0-9+/=]+/gi
\*   keyed   /cookie['":\s]*['"][^'"]+['"]/gi, and the same with password, secret
REDACTION_PATTERNS ==
  << [shape |-> "scheme", word |-> "Basic"],
     [shape |-> "keyed", word |-> "cookie"],
     [shape |-> "keyed", word |-> "password"],
     [shape |-> "keyed", word |-> "secret"] >>

\* a match is the span from..to; valueFrom..valueTo is the part of it the
\* pattern takes for the secret value
NoMatch == [ok |-> FALSE, from |-> 0, to |-> 0, valueFrom |-> 0, valueTo |-> 0]

\* the match of word \s+ [A-Za-z0-9+/=]+ that starts at i: both runs are
\* greedy and share no character, so each is the longest run
SchemeMatchAt(t, i, word) ==
  IF t[i] # word THEN NoMatch
  ELSE LET spaceEnd == RunEnd(t, i + 1, "space")
           valueEnd == RunEnd(t, spaceEnd + 1, "base64")
       IN IF spaceEnd >= i + 1 /\ valueEnd >= spaceEnd + 1
          THEN [ok |-> TRUE, from |-> i, to |-> valueEnd,
                valueFrom |-> spaceEnd + 1, valueTo |-> valueEnd]
          ELSE NoMatch

\* the match of word ['":\s]* ['"] [^'"]+ ['"] that starts at i: the greedy
\* gap gives back characters until it is followed by a quote, one or more
\* characters that are no quote, and a quote; the opening quote is the last
\* one of the gap for which that succeeds
KeyedMatchAt(t, i, word) ==
  IF t[i] # word THEN NoMatch
  ELSE LET gapEnd == RunEnd(t, i + 1, "keygap")
           opening == {q \in (i + 1)..gapEnd :
                         /\ IsQuote(t[q])
                         /\ q + 1 <= Len(t)
                         /\ NotQuote(t[q + 1])
                         /\ RunEnd(t, q + 1, "notquote") < Len(t)}
       IN IF opening = {} THEN NoMatch
          ELSE LET q == SetMax(opening) IN
               [ok |-> TRUE, from |-> i, to |-> RunEnd(t, q + 1, "notquote") + 1,
                valueFrom |-> q + 1, valueTo |-> RunEnd(t, q + 1, "notquote")]

MatchAt(t, i, pattern) ==
  IF pattern.shape = "scheme" THEN SchemeMatchAt(t, i, pattern.word)
  ELSE KeyedMatchAt(t, i, pattern.word)

\* the leftmost match of pattern in t at or after pos
FirstMatch(t, pos, pattern) ==
  LET starts == {i \in pos..Len(t) : MatchAt(t, i, pattern).ok} IN
  IF starts = {} THEN NoMatch ELSE MatchAt(t, SetMin(starts), pattern)

\* index of the first token x in match, 0 when there is none (indexOf + 1)
IndexOf(match, x) ==
  LET at == {i \in 1..Len(match) : match[i] = x} IN
  IF at = {} THEN 0 ELSE SetMin(at)

\* the replacer callback of _sanitize
Replacement(match) ==
  LET colonIndex == IndexOf(match, ":")
      equalsIndex == IndexOf(match, "=")
      separatorIndex == IF colonIndex # 0 THEN colonIndex ELSE equalsIndex
  IN IF separatorIndex # 0
     THEN SubSeq(match, 1, separatorIndex) \o <<" ", "\"", REDACTED, "\"">>
     ELSE <<REDACTED>>

\* result.replace(pattern, replacer) with the g flag, from position pos on
RECURSIVE ReplaceAll(_, _, _)
ReplaceAll(t, pos, pattern) ==
  LET m == FirstMatch(t, pos, pattern) IN
  IF ~m.ok THEN SubSeq(t, pos, Len(t))
  ELSE SubSeq(t, pos, m.from - 1)
         \o Replacement(SubSeq(t, m.from, m.to))
         \o ReplaceAll(t, m.to + 1, pattern)

\* the text after the first k patterns were applied in order
RECURSIVE SanitizeUpTo(_, _)
SanitizeUpTo(t, k) ==
  IF k = 0 THEN t
  ELSE ReplaceAll(SanitizeUpTo(t, k - 1), 1, REDACTION_PATTERNS[k])

\* LogBuffer._sanitize
Sanitize(t) == SanitizeUpTo(t, Len(REDACTION_PATTERNS))

\* number of characters of a text, and the characters JSON.stringify adds
\* when it escapes its quotes and newlines
RECURSIVE TextLenRange(_, _, _)
TextLenRange(t, lo, hi) ==
  IF lo > hi THEN 0
  ELSE IF lo = hi THEN Len(t[lo])
  ELSE LET mid == (lo + hi) \div 2 IN
       TextLenRange(t, lo, mid) + TextLenRange(t, mid + 1, hi)

TextLen(t) == TextLenRange(t, 1, Len(t))
Escapes(t) == Cardinality({i \in 1..Len(t) : t[i] \in {"\"", "\n"}})

\* ------------------------------------------------------- stack traces
\* the elements of a set of numbers in ascending order
RECURSIVE SeqOfSet(_)
SeqOfSet(S) ==
  IF S = {} THEN <<>>
  ELSE LET m == SetMin(S) IN <<m>> \o SeqOfSet(S \ {m})

\* message.split('\n')
Split(t) ==
  LET nl == SeqOfSet({i \in 1..Len(t) : t[i] = "\n"})
      n == Len(nl)
  IN [k \in 1..(n + 1) |->
        SubSeq(t, IF k = 1 THEN 1 ELSE nl[k - 1] + 1,
                  IF k = n + 1 THEN Len(t) ELSE nl[k] - 1)]

\* lines.join('\n') of the lines lo..hi
RECURSIVE JoinRange(_, _, _)
JoinRange(lines, lo, hi) ==
  IF lo > hi THEN <<>>
  ELSE IF lo = hi THEN lines[lo]
  ELSE LET mid == (lo + hi) \div 2 IN
       JoinRange(lines, lo, mid) \o <<"\n">> \o JoinRange(lines, mid + 1, hi)

Join(lines) == JoinRange(lines, 1, Len(lines))

\* line.trim().startsWith('at ')
StartsWithAt(line) ==
  LET inked == {i \in 1..Len(line) : ~IsSpace(line[i])} IN
  /\ inked # {}
  /\ line[SetMin(inked)] = "at"
  /\ SetMin(inked) + 1 < SetMax(inked)
  /\ line[SetMin(inked) + 1] = " "

\* Array.prototype.slice(0, end): a negative end counts from the end
Slice(s, end) ==
  IF end >= 0 THEN SubSeq(s, 1, Min(end, Len(s)))
  ELSE SubSeq(s, 1, Max(Len(s) + end, 0))

\* LogBuffer._truncateStackTrace
TruncateStackTrace(message) ==
  LET lines == Split(message) IN
  IF Len(lines) <= MAX_STACK_LINES THEN message
  ELSE LET frames == {i \in 1..Len(lines) : StartsWithAt(lines[i])} IN
       IF frames = {}
       THEN Join(SubSeq(lines, 1, MAX_STACK_LINES)) \o <<"\n", "... (truncated)">>
       ELSE LET stackStart == SetMin(frames) - 1
                messageLines == SubSeq(lines, 1, stackStart)
                stackLines == SubSeq(lines, stackStart + 1, Len(lines))
                maxStackLines == MAX_STACK_LINES - Len(messageLines)
            IN IF Len(stackLines) <= maxStackLines THEN message
               ELSE LET truncatedStack == Slice(stackLines, maxStackLines)
                        omitted == Len(stackLines) - maxStackLines
                    IN Join(messageLines \o truncatedStack \o
                            << <<"... (" \o ToString(omitted) \o " more stack frames)">> >>)

\* -------------------------------------------------------- structured data
\* A value is null, a string (its text), a number (its printed text), an
\* array (items with empty keys) or an object (items with keys).
DataNull == [kind |-> "null", text |-> <<>>, items |-> <<>>]
Str(t) == [kind |-> "str", text |-> t, items |-> <<>>]
Num(n) == [kind |-> "num", text |-> <<ToString(n)>>, items |-> <<>>]
Arr(values) ==
  [kind |-> "arr", text |-> <<>>,
   items |-> [i \in 1..Len(values) |-> [key |-> <<>>, value |-> values[i]]]]
Obj(items) == [kind |-> "obj", text |-> <<>>, items |-> items]

\* the words of a key in lower case
LowerToken(t) ==
  CASE t = "Password" -> "password"
    [] t = "Token" -> "token"
    [] t = "API" -> "api"
    [] OTHER -> t

ToLowerCase(key) == [i \in 1..Len(key) |-> LowerToken(key[i])]

\* String.prototype.includes
Includes(text, part) ==
  \E i \in 1..(Len(text) - Len(part) + 1) :
    SubSeq(text, i, i + Len(part) - 1) = part

\* the eight substrings _sanitizeObject looks for in a lower-cased key
IsSensitiveKey(key) ==
  LET lowerKey == ToLowerCase(key) IN
  \/ Includes(lowerKey, <<"password">>)
  \/ Includes(lowerKey, <<"secret">>)
  \/ Includes(lowerKey, <<"token">>)
  \/ Includes(lowerKey, <<"api", "key">>)
  \/ Includes(lowerKey, <<"api", "_", "key">>)
  \/ Includes(lowerKey, <<"authorization">>)
  \/ Includes(lowerKey, <<"cookie">>)
  \/ Includes(lowerKey, <<"credential">>)

\* typeof value === 'object' (null, arrays and objects)
IsObjectType(v) == v.kind \in {"null", "arr", "obj"}

\* variant: array elements are stored as they are
RECURSIVE SanitizeObjectSkipArrays(_)
SanitizeObjectSkipArrays(obj) ==
  IF obj.kind = "null" THEN DataNull
  ELSE IF obj.kind = "str" THEN Str(Sanitize(obj.text))
  ELSE IF obj.kind = "arr" THEN obj
  ELSE IF obj.kind = "obj"
    THEN [obj EXCEPT !.items =
           [i \in 1..Len(obj.items) |->
              LET key == obj.items[i].key
                  value == obj.items[i].value
              IN [key |-> key,
                  value |-> IF IsSensitiveKey(key) THEN Str(<<REDACTED>>)
                            ELSE IF IsObjectType(value)
                              THEN SanitizeObjectSkipArrays(value)
                            ELSE IF value.kind = "str"
                              THEN Str(Sanitize(value.text))
                            ELSE value]]]
  ELSE obj

\* LogBuffer._sanitizeObject
RECURSIVE SanitizeObject(_)
SanitizeObject(obj) ==
  IF obj.kind = "null" THEN DataNull
  ELSE IF obj.kind = "str" THEN Str(Sanitize(obj.text))
  ELSE IF obj.kind = "arr"
    THEN [obj EXCEPT !.items =
           [i \in 1..Len(obj.items) |->
              [key |-> <<>>, value |-> SanitizeObject(obj.items[i].value)]]]
  ELSE IF obj.kind = "obj"
    THEN [obj EXCEPT !.items =
           [i \in 1..Len(obj.items) |->
              LET key == obj.items[i].key
                  value == obj.items[i].value
              IN [key |-> key,
                  value |-> IF IsSensitiveKey(key) THEN Str(<<REDACTED>>)
                            ELSE IF IsObjectType(value) THEN SanitizeObject(value)
                            ELSE IF value.kind = "str"
                              THEN Str(Sanitize(value.text))
                            ELSE value]]]
  ELSE obj

\* the truth value JavaScript gives a value: null, "" and 0 are falsy
IsTruthy(v) ==
  /\ v.kind # "null"
  /\ v.kind = "str" => v.text # <<>>
  /\ v.kind = "num" => v.text # <<"0">>

\* JSON.stringify(value).length
RECURSIVE JsonLen(_)
RECURSIVE JsonLenItems(_, _, _)
JsonLenItems(items, k, isObject) ==
  IF k > Len(items) THEN 0
  ELSE (IF k > 1 THEN 1 ELSE 0)
       + (IF isObject THEN 2 + TextLen(items[k].key) + 1 ELSE 0)
       + JsonLen(items[k].value)
       + JsonLenItems(items, k + 1, isObject)

JsonLen(v) ==
  IF v.kind = "null" THEN JsonNullLen
  ELSE IF v.kind = "num" THEN TextLen(v.text)
  ELSE IF v.kind = "str" THEN 2 + TextLen(v.text) + Escapes(v.text)
  ELSE 2 + JsonLenItems(v.items, 1, v.kind = "obj")

\* -------------------------------------------------------------- retention
\* variant: an `if` in place of the `while`, at most one event is dropped
EnforceRetentionOnce(b) ==
  IF (Len(b.events) > config.maxEvents \/ b.totalBytes > config.maxBytes)
     /\ Len(b.events) > 0
  THEN LET rest == Tail(b.events) IN
       [b EXCEPT !.events = rest,
                 !.totalBytes = @ - Head(b.events).size,
                 !.droppedCount = @ + 1,
                 !.earliestRetainedSeq =
                    IF Len(rest) > 0 THEN rest[1].seq ELSE b.seq]
  ELSE b

\* variant: pop() in place of shift(), the newest event is dropped
RECURSIVE EnforceRetentionNewest(_)
EnforceRetentionNewest(b) ==
  IF (Len(b.events) > config.maxEvents \/ b.totalBytes > config.maxBytes)
     /\ Len(b.events) > 0
  THEN LET rest == SubSeq(b.events, 1, Len(b.events) - 1) IN
       EnforceRetentionNewest(
         [b EXCEPT !.events = rest,
                   !.totalBytes = @ - b.events[Len(b.events)].size,
                   !.droppedCount = @ + 1,
                   !.earliestRetainedSeq =
                      IF Len(rest) > 0 THEN rest[1].seq ELSE b.seq])
  ELSE b

\* variant: the size of a dropped event stays in the byte total
RECURSIVE EnforceRetentionNoSubtract(_)
EnforceRetentionNoSubtract(b) ==
  IF Len(b.events) > config.maxEvents \/ b.totalBytes > config.maxBytes
  THEN IF Len(b.events) > 0
       THEN LET rest == Tail(b.events)
            IN EnforceRetentionNoSubtract(
                 [b EXCEPT !.events = rest,
                           !.droppedCount = @ + 1,
                           !.earliestRetainedSeq =
                              IF Len(rest) > 0 THEN rest[1].seq ELSE b.seq])
       ELSE b
  ELSE b

\* variant: the loop stops when one event is left
RECURSIVE EnforceRetentionKeepLast(_)
EnforceRetentionKeepLast(b) ==
  IF (Len(b.events) > config.maxEvents \/ b.totalBytes > config.maxBytes)
     /\ Len(b.events) > 1
  THEN LET rest == Tail(b.events) IN
       EnforceRetentionKeepLast(
         [b EXCEPT !.events = rest,
                   !.totalBytes = @ - Head(b.events).size,
                   !.droppedCount = @ + 1,
                   !.earliestRetainedSeq = rest[1].seq])
  ELSE b

\* LogBuffer._enforceRetention on the buffer fields b: the while loop, one
\* iteration per recursive call
RECURSIVE EnforceRetention(_)
EnforceRetention(b) ==
  IF Len(b.events) > config.maxEvents \/ b.totalBytes > config.maxBytes
  THEN IF Len(b.events) > 0
       THEN LET dropped == Head(b.events)
                rest == Tail(b.events)
            IN EnforceRetention(
                 [b EXCEPT !.events = rest,
                           !.totalBytes = @ - dropped.size,
                           !.droppedCount = @ + 1,
                           !.earliestRetainedSeq =
                              IF Len(rest) > 0 THEN rest[1].seq ELSE b.seq])
       ELSE b
  ELSE b

\* variant: the level is stored as it is given
ValidLevelAny(level) == level

\* if (!LOG_LEVELS.includes(level)) level = 'info'
ValidLevel(level) == IF level \in LOG_LEVELS THEN level ELSE "info"

\* variant: every append counts its own drops from zero
AppendFieldsResetDropped(in) ==
  LET level == ValidLevel(in.level)
      s == seq + 1
      event == LogEvent(s, level, in.source, in.msgLen, in.msgEsc, in.dataLen)
  IN EnforceRetention(
       [events |-> Append(events, event),
        seq |-> s,
        totalBytes |-> totalBytes + event.size,
        droppedCount |-> 0,
        earliestRetainedSeq |-> earliestRetainedSeq])

\* variant: the new event is put in front of the list
AppendFieldsUnshift(in) ==
  LET level == ValidLevel(in.level)
      s == seq + 1
      event == LogEvent(s, level, in.source, in.msgLen, in.msgEsc, in.dataLen)
  IN EnforceRetention(
       [events |-> <<event>> \o events,
        seq |-> s,
        totalBytes |-> totalBytes + event.size,
        droppedCount |-> droppedCount,
        earliestRetainedSeq |-> earliestRetainedSeq])

\* the buffer fields after append's body: level validation, ++_seq, push,
\* _totalBytes += _size, _enforceRetention()
AppendFields(in) ==
  LET level == ValidLevel(in.level)
      s == seq + 1
      event == LogEvent(s, level, in.source, in.msgLen, in.msgEsc, in.dataLen)
  IN EnforceRetention(
       [events |-> Append(events, event),
        seq |-> s,
        totalBytes |-> totalBytes + event.size,
        droppedCount |-> droppedCount,
        earliestRetainedSeq |-> earliestRetainedSeq])

\* variant: clear also resets the sequence counter
ClearFieldsResetSeq ==
  [events |-> <<>>,
   seq |-> 0,
   totalBytes |-> 0,
   droppedCount |-> 0,
   earliestRetainedSeq |-> 0]

\* variant: clear leaves the dropped counter as it is
ClearFieldsKeepDropped ==
  [events |-> <<>>,
   seq |-> seq,
   totalBytes |-> 0,
   droppedCount |-> droppedCount,
   earliestRetainedSeq |-> seq]

\* variant: clear leaves the earliest retained sequence as it is
ClearFieldsKeepEarliest ==
  [events |-> <<>>,
   seq |-> seq,
   totalBytes |-> 0,
   droppedCount |-> 0,
   earliestRetainedSeq |-> earliestRetainedSeq]

\* the buffer fields after clear's body
ClearFields ==
  [events |-> <<>>,
   seq |-> seq,
   totalBytes |-> 0,
   droppedCount |-> 0,
   earliestRetainedSeq |-> seq]

\* ------------------------------------------------------------------- read
NoOpts == [cursor |-> NullCursor, limit |-> 0, maxBytes |-> 0, levels |-> {},
           sources |-> {}, includeStructured |-> FALSE]
NoRes == [cursor |-> NullCursor, has_more |-> FALSE, events |-> <<>>,
          truncated |-> FALSE]

\* variant: the limit is not capped
EffectiveLimitNoCap(limit) == Max(MinLimit, limit)

EffectiveLimit(limit) == Min(Max(MinLimit, limit), HardLimit)
EffectiveMaxBytes(maxBytes) == Min(Max(MinReadBytes, maxBytes), HardReadBytes)

\* the synthetic event read pushes when the cursor points to dropped data,
\* with the length of its JSON text
WarningEvent ==
  [synthetic |-> TRUE, seq |-> 0, level |-> "warn", source |-> "log_buffer",
   hasData |-> FALSE,
   jsonLen |-> JsonFixedLen + TsLen + Len("warn") + Len("log_buffer")
                 + WarnMessageFixedLen + Digits(droppedCount) + JsonNullLen]

\* JSON.stringify(result.events).length before the scan
InitialBytes(evs) ==
  IF Len(evs) = 0 THEN EmptyArrayLen ELSE EmptyArrayLen + evs[1].jsonLen

\* variant: the sources list is not applied
SkippedNoSources(event, o, effectiveStartSeq) ==
  \/ event.seq <= effectiveStartSeq
  \/ o.levels # {} /\ event.level \notin o.levels

\* variant: the event the cursor names is scanned again
SkippedInclusive(event, o, effectiveStartSeq) ==
  \/ event.seq < effectiveStartSeq
  \/ o.levels # {} /\ event.level \notin o.levels
  \/ o.sources # {} /\ event.source \notin o.sources

\* variant: the byte test looks at what is already collected only
OverBytesLate(currentBytes, eventSize, o) ==
  currentBytes > EffectiveMaxBytes(o.maxBytes)

\* the three `continue` tests of the loop: at or before the start, level
\* not in a non-empty levels list, source not in a non-empty sources list
Skipped(event, o, effectiveStartSeq) ==
  \/ event.seq <= effectiveStartSeq
  \/ o.levels # {} /\ event.level \notin o.levels
  \/ o.sources # {} /\ event.source \notin o.sources

\* currentBytes + eventSize > effectiveMaxBytes
OverBytes(currentBytes, eventSize, o) ==
  currentBytes + eventSize > EffectiveMaxBytes(o.maxBytes)

\* result.events.length >= effectiveLimit
AtLimit(n, o) == n >= EffectiveLimit(o.limit)

\* variant: the item limit is tested before the byte cap
ReadStepLimitFirst(i, o, effectiveStartSeq, r) ==
  LET event == events[i]
      eventJson == ToJSON(event, o.includeStructured)
      eventSize == eventJson.jsonLen + JsonSeparatorLen
  IN IF r.stopped \/ Skipped(event, o, effectiveStartSeq) THEN r
     ELSE IF AtLimit(Len(r.events), o)
       THEN [r EXCEPT !.has_more = TRUE, !.stopped = TRUE]
     ELSE IF OverBytes(r.currentBytes, eventSize, o)
       THEN [r EXCEPT !.truncated = TRUE, !.has_more = TRUE, !.stopped = TRUE]
     ELSE [r EXCEPT !.events = Append(@, eventJson),
                    !.currentBytes = @ + eventSize,
                    !.lastSeq = event.seq]

\* variant: a pushed event does not move lastSeq
ReadStepNoAdvance(i, o, effectiveStartSeq, r) ==
  LET event == events[i]
      eventJson == ToJSON(event, o.includeStructured)
      eventSize == eventJson.jsonLen + JsonSeparatorLen
  IN IF r.stopped \/ Skipped(event, o, effectiveStartSeq) THEN r
     ELSE IF OverBytes(r.currentBytes, eventSize, o)
       THEN [r EXCEPT !.truncated = TRUE, !.has_more = TRUE, !.stopped = TRUE]
     ELSE IF AtLimit(Len(r.events), o)
       THEN [r EXCEPT !.has_more = TRUE, !.stopped = TRUE]
     ELSE [r EXCEPT !.events = Append(@, eventJson),
                    !.currentBytes = @ + eventSize]

\* one iteration of the for loop of read, on the i-th retained event; r
\* carries result.events, result.has_more, result.truncated, currentBytes
\* and lastSeq, and r.stopped is set by `break`
ReadStep(i, o, effectiveStartSeq, r) ==
  LET event == events[i]
      eventJson == ToJSON(event, o.includeStructured)
      eventSize == eventJson.jsonLen + JsonSeparatorLen
  IN IF r.stopped \/ Skipped(event, o, effectiveStartSeq) THEN r
     ELSE IF OverBytes(r.currentBytes, eventSize, o)
       THEN [r EXCEPT !.truncated = TRUE, !.has_more = TRUE, !.stopped = TRUE]
     ELSE IF AtLimit(Len(r.events), o)
       THEN [r EXCEPT !.has_more = TRUE, !.stopped = TRUE]
     ELSE [r EXCEPT !.events = Append(@, eventJson),
                    !.currentBytes = @ + eventSize,
                    !.lastSeq = event.seq]

\* the iterations of the for loop on the retained events lo..hi, in order
\* (taken by halves, which keeps the depth of evaluation logarithmic)
RECURSIVE ReadLoop(_, _, _, _, _)
ReadLoop(lo, hi, o, effectiveStartSeq, r) ==
  IF lo > hi \/ r.stopped THEN r
  ELSE IF lo = hi THEN ReadStep(lo, o, effectiveStartSeq, r)
  ELSE LET mid == (lo + hi) \div 2
           left == ReadLoop(lo, mid, o, effectiveStartSeq, r)
       IN ReadLoop(mid + 1, hi, o, effectiveStartSeq, left)

\* cursor ? this._decodeCursor(cursor) : 0
StartSeq(cursor) ==
  IF cursor.kind \in {"null", "empty"} THEN 0 ELSE DecodeCursor(cursor)

\* variant: the returned cursor encodes where the scan started
ReadResultCursorAtStart(o) ==
  LET startSeq == StartSeq(o.cursor)
      first == IF startSeq > 0 /\ startSeq < earliestRetainedSeq
               THEN <<WarningEvent>> ELSE <<>>
      effectiveStartSeq == Max(startSeq, earliestRetainedSeq)
      r == ReadLoop(1, Len(events), o, effectiveStartSeq,
                    [events |-> first, has_more |-> FALSE, truncated |-> FALSE,
                     currentBytes |-> InitialBytes(first),
                     lastSeq |-> effectiveStartSeq, stopped |-> FALSE])
      more == IF ~r.has_more /\ Len(events) > 0
              THEN r.lastSeq < events[Len(events)].seq
              ELSE r.has_more
  IN [cursor |-> EncodeCursor(effectiveStartSeq), has_more |-> more,
      events |-> r.events, truncated |-> r.truncated]

\* LogBuffer.read(options): the value it returns
ReadResult(o) ==
  LET startSeq == StartSeq(o.cursor)
      first == IF startSeq > 0 /\ startSeq < earliestRetainedSeq
               THEN <<WarningEvent>> ELSE <<>>
      effectiveStartSeq == Max(startSeq, earliestRetainedSeq)
      r == ReadLoop(1, Len(events), o, effectiveStartSeq,
                    [events |-> first, has_more |-> FALSE, truncated |-> FALSE,
                     currentBytes |-> InitialBytes(first),
                     lastSeq |-> effectiveStartSeq, stopped |-> FALSE])
      more == IF ~r.has_more /\ Len(events) > 0
              THEN r.lastSeq < events[Len(events)].seq
              ELSE r.has_more
  IN [cursor |-> EncodeCursor(r.lastSeq), has_more |-> more,
      events |-> r.events, truncated |-> r.truncated]

\* read options a caller passes (read_log forwards them after its defaults):
\* limits below, within and at the default; byte caps below the minimum, at
\* the default and above the maximum; no filter, a levels list or a sources
\* list, structured data left out only without a filter
Limits == {0, 2, DefaultLimit}
ReadBytes == {500, DefaultReadBytes, 2000000}
Selections ==
  { [levels |-> {}, sources |-> {}, includeStructured |-> TRUE],
    [levels |-> {}, sources |-> {}, includeStructured |-> FALSE],
    [levels |-> {"error"}, sources |-> {}, includeStructured |-> TRUE],
    [levels |-> {}, sources |-> {"test"}, includeStructured |-> TRUE] }
Cursors == {NullCursor, held}

\* read({ cursor: <text that does not decode> }), the other options defaulted
MalformedOptions ==
  { [cursor |-> c, limit |-> DefaultLimit,
     maxBytes |-> DefaultReadBytes, levels |-> {}, sources |-> {},
     includeStructured |-> TRUE] : c \in MalformedCursors }

\* read({ cursor, limit: 2000 }): a limit above the hard cap
OverLimitOptions ==
  { [cursor |-> c, limit |-> 2000, maxBytes |-> DefaultReadBytes,
     levels |-> {}, sources |-> {}, includeStructured |-> TRUE] :
      c \in Cursors }

ReadOptions ==
  { [cursor |-> c, limit |-> l, maxBytes |-> mb, levels |-> f.levels,
     sources |-> f.sources, includeStructured |-> f.includeStructured] :
      c \in Cursors, l \in Limits, mb \in ReadBytes, f \in Selections }
    \cup OverLimitOptions \cup MalformedOptions

\* the views of a result that are retained events (not the warning)
IsReal(e) == ~e.synthetic

\* sequence numbers of the retained events, oldest first
RetainedSeqs == [i \in 1..Len(events) |-> events[i].seq]

\* sequence numbers of the non-synthetic events of a read result, in order
RealSeqs(r) ==
  LET s == SelectSeq(r.events, IsReal) IN [i \in 1..Len(s) |-> s[i].seq]

Ascending(s) == \A i, j \in 1..Len(s) : i < j => s[i] < s[j]

\* no callTool invocation has been made: the backend is constructed and
\* not yet initialized
NoCall ==
  [pc |-> "new", name |-> "", isError |-> FALSE, outcome |-> "none",
   before |-> [seq |-> 0, events |-> <<>>]]

\* runTests has not been called
NoResult == [exitCode |-> 0, chunks |-> 0, processError |-> FALSE,
             timedOut |-> FALSE, timerFired |-> FALSE]
NoRun ==
  [pc |-> "idle", timeout |-> 0, timer |-> "none", killTimer |-> "none",
   timedOut |-> FALSE, chunks |-> 0, closed |-> FALSE, errored |-> FALSE,
   result |-> NoResult]

\* append arguments and the created event before any append of a text
NoArgs == [level |-> "", source |-> "", message |-> <<>>, data |-> DataNull]
NoEntry == [level |-> "", message |-> <<>>, data |-> DataNull]

\* ---------------------------------------------------------------- actions
Init ==
  /\ config \in Configs
  /\ events = <<>>
  /\ seq = 0
  /\ totalBytes = 0
  /\ droppedCount = 0
  /\ earliestRetainedSeq = 0
  /\ lastOp = "new"
  /\ ret = 0
  /\ appendCount = 0
  /\ cleared = FALSE
  /\ budget = MaxAppends
  /\ opts = NoOpts
  /\ res = NoRes
  /\ prevRes = NoRes
  /\ readKind = "none"
  /\ held = NullCursor
  /\ args = NoArgs
  /\ entry = NoEntry
  /\ seen = 0
  /\ calls = 0
  /\ call = NoCall
  /\ run = NoRun

ForgetRead ==
  /\ opts' = NoOpts
  /\ res' = NoRes
  /\ prevRes' = NoRes
  /\ readKind' = "none"

\* buffer.append(level, source, message, data)
AppendEvent(in) ==
  /\ budget > 0
  /\ budget' = budget - 1
  /\ LET b == AppendFields(in) IN
       /\ events' = b.events
       /\ seq' = b.seq
       /\ totalBytes' = b.totalBytes
       /\ droppedCount' = b.droppedCount
       /\ earliestRetainedSeq' = b.earliestRetainedSeq
       /\ ret' = b.seq
  /\ appendCount' = appendCount + 1
  /\ lastOp' = "append"
  /\ ForgetRead
  /\ UNCHANGED <<config, cleared, held, args, entry, seen, calls, call, run>>

\* buffer.clear()
Clear ==
  /\ lastOp # "clear"
  /\ LET b == ClearFields IN
       /\ events' = b.events
       /\ seq' = b.seq
       /\ totalBytes' = b.totalBytes
       /\ droppedCount' = b.droppedCount
       /\ earliestRetainedSeq' = b.earliestRetainedSeq
  /\ lastOp' = "clear"
  /\ cleared' = TRUE
  /\ ForgetRead
  /\ UNCHANGED <<config, ret, appendCount, budget, held, args, entry, seen,
                 calls, call, run>>

\* variant: a read that warns about dropped data resets the dropped counter
ReadWithReset(o, kind) ==
  /\ opts' = o
  /\ res' = ReadResult(o)
  /\ prevRes' = IF kind = "plain" THEN NoRes ELSE res
  /\ readKind' = kind
  /\ lastOp' = "read"
  /\ droppedCount' =
       IF Len(res'.events) > 0 /\ res'.events[1].synthetic THEN 0
       ELSE droppedCount
  /\ UNCHANGED <<config, events, seq, totalBytes,
                 earliestRetainedSeq, ret, appendCount, cleared, budget, held,
                 args, entry, call, run>>

\* buffer.read(o): no field of the buffer is assigned
ReadWith(o, kind) ==
  /\ opts' = o
  /\ res' = ReadResult(o)
  /\ prevRes' = IF kind = "plain" THEN NoRes ELSE res
  /\ readKind' = kind
  /\ lastOp' = "read"
  /\ UNCHANGED <<config, events, seq, totalBytes, droppedCount,
                 earliestRetainedSeq, ret, appendCount, cleared, budget, held,
                 args, entry, call, run>>

\* a read with any options
Read ==
  /\ lastOp # "read"
  /\ \E o \in ReadOptions : ReadWith(o, "plain")
  /\ UNCHANGED <<seen, calls>>

\* a read that passes the cursor of the read just before it, same options
ReadNext ==
  /\ lastOp = "read"
  /\ ReadWith([opts EXCEPT !.cursor = res.cursor], "next")
  /\ UNCHANGED <<seen, calls>>

\* a read that repeats the read with any options just before it
ReadAgain ==
  /\ lastOp = "read"
  /\ readKind = "plain"
  /\ ReadWith(opts, "again")
  /\ UNCHANGED <<seen, calls>>

\* the caller keeps the cursor of the read it just made, to pass it later
KeepCursor ==
  /\ lastOp = "read"
  /\ held' = res.cursor
  /\ lastOp' = "keep"
  /\ ForgetRead
  /\ UNCHANGED <<config, events, seq, totalBytes, droppedCount,
                 earliestRetainedSeq, ret, appendCount, cleared, budget,
                 args, entry, seen, calls, call, run>>

Next ==
  \/ \E in \in AppendInputs : AppendEvent(in)
  \/ Clear
  \/ Read
  \/ ReadNext
  \/ ReadAgain
  \/ KeepCursor

Spec == Init /\ [][Next]_vars

\* A buffer that holds more events than one read may return: the state of
\* new LogBuffer({ maxEvents: BulkSize }) after BulkSize appends of a short
\* message, with one more append to come.  Reads are not chained here.
BulkSize == HardLimit + BulkExtra
BulkEvent(s) == LogEvent(s, "info", "test", 9, 0, 0)

InitBulk ==
  /\ config = [maxEvents |-> BulkSize, maxBytes |-> DefaultMaxBytes]
  /\ events = [s \in 1..BulkSize |-> BulkEvent(s)]
  /\ seq = BulkSize
  /\ totalBytes = BulkSize * BulkEvent(1).size
  /\ droppedCount = 0
  /\ earliestRetainedSeq = 0
  /\ lastOp = "append"
  /\ ret = BulkSize
  /\ appendCount = BulkSize
  /\ cleared = FALSE
  /\ budget = 1
  /\ opts = NoOpts
  /\ res = NoRes
  /\ prevRes = NoRes
  /\ readKind = "none"
  /\ held = NullCursor
  /\ args = NoArgs
  /\ entry = NoEntry
  /\ seen = 0
  /\ calls = 0
  /\ call = NoCall
  /\ run = NoRun

\* the caller keeps the first cursor it gets and no other
KeepFirstCursor ==
  /\ held = NullCursor
  /\ KeepCursor

NextBulk ==
  \/ \E in \in AppendInputs : AppendEvent(in)
  \/ Clear
  \/ Read
  \/ KeepFirstCursor

SpecBulk == InitBulk /\ [][NextBulk]_vars

\* ---------------------------------------------- a reader that keeps its place
\* One client reads the log from the start and passes, in every read after
\* its first, the cursor its previous read returned; the other options may
\* change from one read to the next.  Appends and clears by the session come
\* between its reads.
ReaderOptions ==
  { [cursor |-> held, limit |-> l, maxBytes |-> mb, levels |-> f.levels,
     sources |-> f.sources, includeStructured |-> f.includeStructured] :
      l \in {1, DefaultLimit}, mb \in {DefaultReadBytes}, f \in Selections }

\* highest sequence number among the real events of a result, or `before`
LastDelivered(r, before) ==
  LET s == RealSeqs(r) IN IF Len(s) = 0 THEN before ELSE Max(before, s[Len(s)])

\* the reader calls read with the cursor it holds
ReaderRead ==
  /\ lastOp # "read"
  /\ \E o \in ReaderOptions : ReadWith(o, "plain")
  /\ seen' = LastDelivered(res', seen)
  /\ UNCHANGED calls

\* the reader stores the cursor of the result it was handed
ReaderKeep == KeepCursor

ReaderAppend ==
  /\ lastOp # "read"
  /\ \E in \in AppendInputs : AppendEvent(in)

ReaderClear ==
  /\ lastOp # "read"
  /\ Clear

NextReader ==
  \/ ReaderAppend
  \/ ReaderClear
  \/ ReaderRead
  \/ ReaderKeep

SpecReader == Init /\ [][NextReader]_vars

\* ------------------------------------------------- a client that pages
\* After the session's appends and clears one client reads with any options
\* and, as long as has_more is true, reads again with the returned cursor
\* and the same options; nothing is appended or cleared meanwhile.  The
\* client goes on calling (weak fairness of PageNext), and calls counts its
\* reads modulo 2, so that a read which changes nothing else is still a step.
PagingAppend ==
  /\ lastOp # "read"
  /\ \E in \in AppendInputs : AppendEvent(in)

PagingClear ==
  /\ lastOp # "read"
  /\ Clear

PageFirst ==
  /\ lastOp # "read"
  /\ \E o \in ReadOptions : ReadWith(o, "plain")
  /\ calls' = 1
  /\ UNCHANGED seen

PageNext ==
  /\ lastOp = "read"
  /\ res.has_more
  /\ ReadWith([opts EXCEPT !.cursor = res.cursor], "next")
  /\ calls' = 1 - calls
  /\ UNCHANGED seen

NextPaging ==
  \/ PagingAppend
  \/ PagingClear
  \/ PageFirst
  \/ PageNext

SpecPaging == Init /\ [][NextPaging]_vars /\ WF_vars(PageNext)

\* ------------------------------------------------- appends of real texts
\* messages over a small alphabet: two pattern words, the separators, a
\* space, a quote and a letter
Tokens == {"password", "Basic", ":", "=", " ", "\"", "s"}

RECURSIVE TextsOfLen(_)
TextsOfLen(n) ==
  IF n = 0 THEN {<<>>}
  ELSE {Append(t, x) : t \in TextsOfLen(n - 1), x \in Tokens}

Messages == UNION {TextsOfLen(n) : n \in 0..MaxTokens}

\* a message of n lines: `pre` lines of plain text, then stack frames; the
\* frames start at once, after one line, or around the line budget
TextLine == <<"s">>
FrameLine == <<" ", "at", " ", "s">>
StackMessage(pre, n) ==
  Join([k \in 1..n |-> IF k <= pre THEN TextLine ELSE FrameLine])

StackMessages ==
  {StackMessage(pre, n) :
     pre \in {0, 1} \cup (MAX_STACK_LINES - 2)..(MAX_STACK_LINES + MaxExtraLines),
     n \in (MAX_STACK_LINES - 1)..(MAX_STACK_LINES + MaxExtraLines)}

\* structured payloads: keys in several spellings, leaves, one-field
\* objects, arrays of them, and objects that hold those
Keys ==
  { <<"Password">>, <<"user", "_", "Token">>, <<"API", "_", "key">>,
    <<"api", "-", "key">>, <<"url">> }
Leaves ==
  { Str(<<"s">>), Str(<<"password", ":", " ", "\"", "s", "\"">>),
    Num(200), DataNull }
Objects1 == {Obj(<<[key |-> k, value |-> v]>>) : k \in Keys, v \in Leaves}
Arrays1 ==
  {Arr(<<o>>) : o \in Objects1} \cup {Arr(<<Str(<<"s">>), Num(200)>>)}
Objects2 ==
  {Obj(<<[key |-> k, value |-> v]>>) : k \in Keys, v \in Objects1 \cup Arrays1}
    \cup {Obj(<<[key |-> <<"Password">>, value |-> Str(<<"s">>)],
                [key |-> <<"url">>, value |-> Str(<<"s">>)]>>)}
Payloads ==
  Objects1 \cup Arrays1 \cup Objects2 \cup {Arr(<<o>>) : o \in Objects2}
    \cup {DataNull, Str(<<>>), Num(0), Str(<<"s">>), Num(200)}

\* arguments of append: any message at level info, stack traces at a debug,
\* a non-debug and an unknown level, payloads beside a short message
TextArgs ==
  {[level |-> "info", source |-> "test", message |-> m, data |-> DataNull] :
     m \in Messages}
  \cup {[level |-> l, source |-> "test", message |-> m, data |-> DataNull] :
          l \in {"debug", "error", "fatal"}, m \in StackMessages}
  \cup {[level |-> "warn", source |-> "test", message |-> <<"s">>, data |-> d] :
          d \in Payloads}

\* data ? this._sanitizeObject(data) : null
StoredData(data) == IF IsTruthy(data) THEN SanitizeObject(data) ELSE DataNull

\* the message append stores at a (validated) level: sanitized, and
\* truncated unless the level is debug
StoredMessage(level, message) ==
  LET sanitizedMessage == Sanitize(message) IN
  IF level # "debug" THEN TruncateStackTrace(sanitizedMessage)
  ELSE sanitizedMessage

\* the assignments of append once the level, the message and the data to
\* store are known: the event is created, pushed and retention enforced
StoreText(level, truncatedMessage, sanitizedData, b) ==
  /\ events' = b.events
  /\ seq' = b.seq
  /\ totalBytes' = b.totalBytes
  /\ droppedCount' = b.droppedCount
  /\ earliestRetainedSeq' = b.earliestRetainedSeq
  /\ ret' = b.seq
  /\ entry' = [level |-> level, message |-> truncatedMessage,
               data |-> sanitizedData]

\* the fields of the buffer after the event with these contents is appended
AppendStored(a, truncatedMessage, sanitizedData) ==
  AppendFields([level |-> a.level, source |-> a.source,
                msgLen |-> TextLen(truncatedMessage),
                msgEsc |-> Escapes(truncatedMessage),
                dataLen |-> IF IsTruthy(sanitizedData)
                            THEN JsonLen(sanitizedData) ELSE 0])

\* what append stores for its arguments a: level, message and data
Stored(a) ==
  [level |-> ValidLevel(a.level),
   message |-> StoredMessage(ValidLevel(a.level), a.message),
   data |-> StoredData(a.data)]

\* the event contents st are appended
AppendContents(a, st) ==
  StoreText(st.level, st.message, st.data,
            AppendStored(a, st.message, st.data))

\* buffer.append(level, source, message, data) on a text and a payload
AppendText(a) ==
  /\ budget > 0
  /\ budget' = budget - 1
  /\ AppendContents(a, Stored(a))
  /\ args' = a
  /\ appendCount' = appendCount + 1
  /\ lastOp' = "append"
  /\ ForgetRead
  /\ UNCHANGED <<config, cleared, held, seen, calls, call, run>>

\* a new LogBuffer() that takes one append of a text
InitText ==
  /\ config = [maxEvents |-> DefaultMaxEvents, maxBytes |-> DefaultMaxBytes]
  /\ events = <<>>
  /\ seq = 0
  /\ totalBytes = 0
  /\ droppedCount = 0
  /\ earliestRetainedSeq = 0
  /\ lastOp = "new"
  /\ ret = 0
  /\ appendCount = 0
  /\ cleared = FALSE
  /\ budget = 1
  /\ opts = NoOpts
  /\ res = NoRes
  /\ prevRes = NoRes
  /\ readKind = "none"
  /\ held = NullCursor
  /\ args = NoArgs
  /\ entry = NoEntry
  /\ seen = 0
  /\ calls = 0
  /\ call = NoCall
  /\ run = NoRun

NextText == \E a \in TextArgs : AppendText(a)

SpecText == InitText /\ [][NextText]_vars

\* ------------------------------------------- PatchedBrowserServerBackend
\* One backend with its session log buffer; tool calls are made one at a
\* time.  call.pc is the position of the backend: "new" (constructed),
\* "idle" (initialized), "handling" (awaiting customTool.handle),
\* "finishing" (awaiting response.finish), "base" (awaiting super.callTool)
\* and "done" (callTool has returned or rejected).

\* custom tools: read_log (reads the buffer), test_run and
\* generator_write_test (log through their own loggers), test_list (logs
\* nothing); browser_click stands for the standard tools of the base backend
CustomTools == {"read_log", "test_run", "test_list", "generator_write_test"}
Tools == CustomTools \cup {"browser_click"}

\* length of error.message of a thrown error, and of the JSON text of the
\* data logged with it ({ durationMs, error, stack })
ErrLen == 4
ErrDataLen == 53

\* lengths of the JSON texts { arguments: {} } and { durationMs: 0 }
ArgsDataLen == 16
DurationDataLen == 16

\* variant: callTool logs every tool, read_log included
LogsCallsAll(name) == TRUE

\* if (name !== 'read_log'): the guard of every logger call of callTool
LogsCalls(name) == name # "read_log"

\* the fields of the buffer as they are
Fields ==
  [events |-> events, seq |-> seq, totalBytes |-> totalBytes,
   droppedCount |-> droppedCount, earliestRetainedSeq |-> earliestRetainedSeq]

\* append on a buffer whose fields are b (createLogger(buffer, source)
\* forwards level, source, message and data to buffer.append)
AppendTo(b, in) ==
  EnforceRetention(
    [events |-> Append(b.events,
                       LogEvent(b.seq + 1, ValidLevel(in.level), in.source,
                                in.msgLen, in.msgEsc, in.dataLen)),
     seq |-> b.seq + 1,
     totalBytes |-> b.totalBytes
                      + CalculateSize(ValidLevel(in.level), in.source,
                                      in.msgLen, in.dataLen),
     droppedCount |-> b.droppedCount,
     earliestRetainedSeq |-> b.earliestRetainedSeq])

\* logger.info(`Tool "${name}" started`, { arguments })
StartedLog(name) ==
  [level |-> "info", source |-> name, msgLen |-> Len(name) + 15,
   msgEsc |-> 2, dataLen |-> ArgsDataLen]

\* logger.info(`Tool "${name}" completed`, { durationMs })
CompletedLog(name) ==
  [level |-> "info", source |-> name, msgLen |-> Len(name) + 17,
   msgEsc |-> 2, dataLen |-> DurationDataLen]

\* logger.error(`Tool "${name}" failed`, { durationMs })
FailedLog(name) ==
  [level |-> "error", source |-> name, msgLen |-> Len(name) + 14,
   msgEsc |-> 2, dataLen |-> DurationDataLen]

\* logger.error(`Tool "${name}" failed: ${error.message}`, { ... })
ThrownLog(name) ==
  [level |-> "error", source |-> name, msgLen |-> Len(name) + 16 + ErrLen,
   msgEsc |-> 2, dataLen |-> ErrDataLen]

\* logger.info('MCP session initialized', { clientName, clientVersion })
\* with and without client information
InitializedLogs ==
  { [level |-> "info", source |-> "mcp_server", msgLen |-> 23, msgEsc |-> 0,
     dataLen |-> d] : d \in {2, 38} }

\* test_run: logger.info('Starting test execution', { ... })
TestStartLog ==
  [level |-> "info", source |-> "test_run", msgLen |-> 23, msgEsc |-> 0,
   dataLen |-> 30]

\* test_run: the event its handler logs when the run ends, and whether the
\* handler calls response.addError: success, failures, timeout, error
TestEndings ==
  { [isError |-> FALSE,
     log |-> [level |-> "info", source |-> "test_run", msgLen |-> 37,
              msgEsc |-> 0, dataLen |-> 30]],
    [isError |-> TRUE,
     log |-> [level |-> "warn", source |-> "test_run", msgLen |-> 38,
              msgEsc |-> 0, dataLen |-> 30]],
    [isError |-> TRUE,
     log |-> [level |-> "warn", source |-> "test_run", msgLen |-> 24,
              msgEsc |-> 0, dataLen |-> 36]],
    [isError |-> TRUE,
     log |-> [level |-> "error", source |-> "test_run", msgLen |-> 21,
              msgEsc |-> 0, dataLen |-> ErrDataLen]] }

\* generator_write_test: the events its handler logs and whether it calls
\* response.addError: a parameter is refused, the file cannot be written,
\* the file is written
WriteEndings ==
  { [isError |-> TRUE,
     logs |-> << [level |-> "error", source |-> "generator_write_test",
                  msgLen |-> 16, msgEsc |-> 0, dataLen |-> 0] >>],
    [isError |-> TRUE,
     logs |-> << [level |-> "debug", source |-> "generator_write_test",
                  msgLen |-> 26, msgEsc |-> 0, dataLen |-> 20],
                 [level |-> "error", source |-> "generator_write_test",
                  msgLen |-> 45, msgEsc |-> 2, dataLen |-> 40] >>],
    [isError |-> FALSE,
     logs |-> << [level |-> "debug", source |-> "generator_write_test",
                  msgLen |-> 26, msgEsc |-> 0, dataLen |-> 20],
                 [level |-> "info", source |-> "generator_write_test",
                  msgLen |-> 30, msgEsc |-> 0, dataLen |-> 60] >>] }

\* the options read_log builds from its parameters: defaults for what is
\* absent, the cursor of the previous result or none, a limit, a filter
ReadLogOptions ==
  { [cursor |-> c, limit |-> l, maxBytes |-> DefaultReadBytes,
     levels |-> f.levels, sources |-> f.sources, includeStructured |-> TRUE] :
      c \in {NullCursor, res.cursor}, l \in {1, DefaultLimit},
      f \in { [levels |-> {}, sources |-> {}],
              [levels |-> {"error"}, sources |-> {}],
              [levels |-> {}, sources |-> {"test_run"}] } }

\* the buffer fields become b; ret and appendCount follow the appends made
Logged(b) ==
  /\ events' = b.events
  /\ seq' = b.seq
  /\ totalBytes' = b.totalBytes
  /\ droppedCount' = b.droppedCount
  /\ earliestRetainedSeq' = b.earliestRetainedSeq
  /\ ret' = IF b.seq > seq THEN b.seq ELSE ret
  /\ appendCount' = appendCount + (b.seq - seq)

\* the appends of the events of logs, in order, on a buffer with fields b
RECURSIVE AppendAll(_, _)
AppendAll(b, logs) ==
  IF logs = <<>> THEN b
  ELSE AppendAll(AppendTo(b, Head(logs)), Tail(logs))

\* b with the event appended when callTool logs this tool
LogIf(b, name, in) == IF LogsCalls(name) THEN AppendTo(b, in) ELSE b

\* initialize(clientInfo): the buffer is attached to the context and the
\* session start is logged
Initialize ==
  /\ call.pc = "new"
  /\ \E in \in InitializedLogs : Logged(AppendTo(Fields, in))
  /\ call' = [call EXCEPT !.pc = "idle"]
  /\ UNCHANGED <<config, lastOp, cleared, budget, opts, res, prevRes,
                 readKind, held, args, entry, seen, calls, run>>

\* callTool(name, rawArguments) up to its first await, for a custom tool
\* whose arguments do not parse: the start is logged, parse throws and the
\* call rejects
CallToolRejected(name) ==
  /\ name \in CustomTools
  /\ Logged(LogIf(Fields, name, StartedLog(name)))
  /\ call' = [pc |-> "done", name |-> name, isError |-> FALSE,
              outcome |-> "rejected",
              before |-> [seq |-> seq, events |-> events]]
  /\ UNCHANGED <<lastOp, opts, res>>

\* callTool up to its first await for read_log: the handler runs to its end
\* (it has no await), reading the buffer with the options it built
CallReadLog(o) ==
  /\ Logged(LogIf(Fields, "read_log", StartedLog("read_log")))
  /\ opts' = o
  /\ res' = ReadResult(o)
  /\ lastOp' = "read"
  /\ call' = [pc |-> "handling", name |-> "read_log", isError |-> FALSE,
              outcome |-> "none",
              before |-> [seq |-> seq, events |-> events]]

\* callTool up to its first await for test_run: the handler logs the start
\* of the run and awaits runTests
CallTestRun ==
  /\ Logged(AppendTo(LogIf(Fields, "test_run", StartedLog("test_run")),
                     TestStartLog))
  /\ call' = [pc |-> "handling", name |-> "test_run", isError |-> FALSE,
              outcome |-> "none",
              before |-> [seq |-> seq, events |-> events]]
  /\ UNCHANGED <<lastOp, opts, res>>

\* callTool up to its first await for the other tools: a custom handler or
\* super.callTool is awaited
CallOther(name) ==
  /\ name \in Tools \ {"read_log", "test_run"}
  /\ Logged(LogIf(Fields, name, StartedLog(name)))
  /\ call' = [pc |-> IF name \in CustomTools THEN "handling" ELSE "base",
              name |-> name, isError |-> FALSE, outcome |-> "none",
              before |-> [seq |-> seq, events |-> events]]
  /\ UNCHANGED <<lastOp, opts, res>>

\* callTool(name, rawArguments), from its entry to its first await
CallTool ==
  /\ call.pc \in {"idle", "done"}
  /\ budget > 0
  /\ budget' = budget - 1
  /\ \/ \E name \in CustomTools : CallToolRejected(name)
     \/ \E o \in ReadLogOptions : CallReadLog(o)
     \/ CallTestRun
     \/ \E name \in Tools : CallOther(name)
  /\ UNCHANGED <<config, cleared, prevRes, readKind, held, args, entry,
                 seen, calls, run>>

\* await customTool.handle(...) resolves (the handlers catch what they
\* throw and report it with response.addError); test_run and
\* generator_write_test have logged how their work ended, read_log has
\* added its result
HandlerSettles ==
  /\ call.pc = "handling"
  /\ \/ /\ call.name = "test_run"
        /\ \E e \in TestEndings :
             /\ Logged(AppendTo(Fields, e.log))
             /\ call' = [call EXCEPT !.pc = "finishing",
                                     !.isError = e.isError]
     \/ /\ call.name = "generator_write_test"
        /\ \E e \in WriteEndings :
             /\ Logged(AppendAll(Fields, e.logs))
             /\ call' = [call EXCEPT !.pc = "finishing",
                                     !.isError = e.isError]
     \/ /\ call.name = "test_list"
        /\ \E err \in BOOLEAN :
             call' = [call EXCEPT !.pc = "finishing", !.isError = err]
        /\ Logged(Fields)
     \/ /\ call.name = "read_log"
        /\ call' = [call EXCEPT !.pc = "finishing"]
        /\ Logged(Fields)
  /\ UNCHANGED <<config, lastOp, cleared, budget, opts, res, prevRes,
                 readKind, held, args, entry, seen, calls, run>>

\* await response.finish() resolves: the completion is logged and the
\* serialized response returned
FinishResolves ==
  /\ call.pc = "finishing"
  /\ Logged(LogIf(Fields, call.name, CompletedLog(call.name)))
  /\ call' = [call EXCEPT !.pc = "done", !.outcome = "returned"]
  /\ UNCHANGED <<config, lastOp, cleared, budget, opts, res, prevRes,
                 readKind, held, args, entry, seen, calls, run>>

\* await response.finish() throws: the catch block adds the error to the
\* response and logs the failure; the serialized response is returned
FinishThrows ==
  /\ call.pc = "finishing"
  /\ Logged(LogIf(Fields, call.name, ThrownLog(call.name)))
  /\ call' = [call EXCEPT !.pc = "done", !.isError = TRUE,
                          !.outcome = "returned"]
  /\ UNCHANGED <<config, lastOp, cleared, budget, opts, res, prevRes,
                 readKind, held, args, entry, seen, calls, run>>

\* await super.callTool(...) resolves with a result, whose isError decides
\* between the completion and the failure log, or throws, which is logged
\* and thrown again
BaseSettles ==
  /\ call.pc = "base"
  /\ \/ /\ Logged(LogIf(Fields, call.name, CompletedLog(call.name)))
        /\ call' = [call EXCEPT !.pc = "done", !.outcome = "returned"]
     \/ /\ Logged(LogIf(Fields, call.name, FailedLog(call.name)))
        /\ call' = [call EXCEPT !.pc = "done", !.isError = TRUE,
                                !.outcome = "returned"]
     \/ /\ Logged(LogIf(Fields, call.name, ThrownLog(call.name)))
        /\ call' = [call EXCEPT !.pc = "done", !.outcome = "rejected"]
  /\ UNCHANGED <<config, lastOp, cleared, budget, opts, res, prevRes,
                 readKind, held, args, entry, seen, calls, run>>

\* new PatchedBrowserServerBackend(config, factory): a new LogBuffer()
InitTool ==
  /\ config = [maxEvents |-> DefaultMaxEvents, maxBytes |-> DefaultMaxBytes]
  /\ events = <<>>
  /\ seq = 0
  /\ totalBytes = 0
  /\ droppedCount = 0
  /\ earliestRetainedSeq = 0
  /\ lastOp = "new"
  /\ ret = 0
  /\ appendCount = 0
  /\ cleared = FALSE
  /\ budget = MaxCalls
  /\ opts = NoOpts
  /\ res = NoRes
  /\ prevRes = NoRes
  /\ readKind = "none"
  /\ held = NullCursor
  /\ args = NoArgs
  /\ entry = NoEntry
  /\ seen = 0
  /\ calls = 0
  /\ call = NoCall
  /\ run = NoRun

NextTool ==
  \/ Initialize
  \/ CallTool
  \/ HandlerSettles
  \/ FinishResolves
  \/ FinishThrows
  \/ BaseSettles

SpecTool == InitTool /\ [][NextTool]_vars

\* ---------------------------------------------------------------- runTests
\* One call of runTests(params, cwd, timeout): the promise it returns, the
\* timeout timer, the SIGKILL timer the timeout callback starts, and the
\* 'data', 'error' and 'close' callbacks of the child process, each an
\* action that the event loop may run whenever its event can occur.

\* timeouts test_run passes: params.timeout ?? DEFAULT_TIMEOUT
Timeouts == {0, 1000, DEFAULT_TIMEOUT}

\* the code 'close' reports: a number, or null when a signal ended the child
CloseCodes ==
  { [isNull |-> FALSE, n |-> 0], [isNull |-> FALSE, n |-> 1],
    [isNull |-> TRUE, n |-> 0] }

\* code ?? 1
CodeOrOne(code) == IF code.isNull THEN 1 ELSE code.n

\* resolve(value): the promise takes the first value it is resolved with;
\* timerFired records whether the timeout callback had run by then
Resolve(r, value) ==
  IF r.pc = "resolved" THEN r
  ELSE [r EXCEPT !.pc = "resolved",
                 !.result = [exitCode |-> value.exitCode,
                             chunks |-> r.chunks,
                             processError |-> value.processError,
                             timedOut |-> value.timedOut,
                             timerFired |-> r.timer = "fired"]]

\* if (timer) clearTimeout(timer): a timer that has not fired never will
ClearTimer(r) ==
  [r EXCEPT !.timer = IF @ = "armed" THEN "cleared" ELSE @]

\* runTests and its callbacks assign nothing but their own variables
RunOnly ==
  UNCHANGED <<config, events, seq, totalBytes, droppedCount,
              earliestRetainedSeq, lastOp, ret, appendCount, cleared,
              budget, opts, res, prevRes, readKind, held, args, entry,
              seen, calls, call>>

\* runTests is called: the child is spawned, the timer is set when
\* timeout > 0 and the callbacks are registered
RunTests(timeout) ==
  /\ run.pc = "idle"
  /\ run' = [run EXCEPT !.pc = "pending", !.timeout = timeout,
                        !.timer = IF timeout > 0 THEN "armed" ELSE "none"]
  /\ RunOnly

\* the timeout callback: timedOut = true, SIGTERM, and the SIGKILL timer
TimerFires ==
  /\ run.timer = "armed"
  /\ run' = [run EXCEPT !.timer = "fired", !.timedOut = TRUE,
                        !.killTimer = "armed"]
  /\ RunOnly

\* the callback of the SIGKILL timer, which nothing cancels
KillTimerFires ==
  /\ run.killTimer = "armed"
  /\ run' = [run EXCEPT !.killTimer = "fired"]
  /\ RunOnly

\* proc.stdout.on('data') and proc.stderr.on('data'): output += data
OnData ==
  /\ run.pc # "idle"
  /\ ~run.closed
  /\ run.chunks < MaxChunks
  /\ run' = [run EXCEPT !.chunks = @ + 1]
  /\ RunOnly

\* proc.on('error'): the child could not be spawned or could not be
\* signalled
OnError ==
  /\ run.pc # "idle"
  /\ ~run.closed
  /\ ~run.errored
  /\ run' = [Resolve(ClearTimer(run),
                     [exitCode |-> 1, processError |-> TRUE,
                      timedOut |-> FALSE])
               EXCEPT !.errored = TRUE]
  /\ RunOnly

\* proc.on('close'): the child has ended and its streams are closed
OnClose(code) ==
  /\ run.pc # "idle"
  /\ ~run.closed
  /\ run' = [Resolve(ClearTimer(run),
                     [exitCode |-> IF run.timedOut THEN -1
                                   ELSE CodeOrOne(code),
                      processError |-> FALSE,
                      timedOut |-> run.timedOut])
               EXCEPT !.closed = TRUE]
  /\ RunOnly

InitRun ==
  /\ config = [maxEvents |-> DefaultMaxEvents, maxBytes |-> DefaultMaxBytes]
  /\ events = <<>>
  /\ seq = 0
  /\ totalBytes = 0
  /\ droppedCount = 0
  /\ earliestRetainedSeq = 0
  /\ lastOp = "new"
  /\ ret = 0
  /\ appendCount = 0
  /\ cleared = FALSE
  /\ budget = 0
  /\ opts = NoOpts
  /\ res = NoRes
  /\ prevRes = NoRes
  /\ readKind = "none"
  /\ held = NullCursor
  /\ args = NoArgs
  /\ entry = NoEntry
  /\ seen = 0
  /\ calls = 0
  /\ call = NoCall
  /\ run = NoRun

NextRun ==
  \/ \E timeout \in Timeouts : RunTests(timeout)
  \/ TimerFires
  \/ KillTimerFires
  \/ OnData
  \/ OnError
  \/ \E code \in CloseCodes : OnClose(code)

SpecRun == InitRun /\ [][NextRun]_vars

\* ------------------------------------------------------------ properties
\* C1: the k-th append since construction returns k, and the counter equals
\* the number of appends made whatever reads and clears came between
C1_SequenceIsAppendCount ==
  /\ seq = appendCount
  /\ lastOp = "append" => ret = appendCount

\* a third append that follows a clear and returns 3
C1_Witness ==
  /\ lastOp = "append"
  /\ cleared
  /\ ret = 3
  /\ budget = MaxAppends - 3

\* C2: after every append the retained count is within maxEvents and the
\* tracked bytes within maxBytes
C2_BoundedAfterAppend ==
  lastOp = "append" =>
    /\ Len(events) <= config.maxEvents
    /\ totalBytes <= config.maxBytes

\* an append under the byte bound that evicted and still retains an event
C2_Witness ==
  /\ lastOp = "append"
  /\ config.maxBytes = 800
  /\ droppedCount > 0
  /\ Len(events) >= 1

\* C3: with maxEvents = M, the byte bound out of reach and no clear, after
\* N >= M appends the retained events are N-M+1..N and droppedCount = N-M
C3_OldestFirst ==
  ( /\ ~cleared
    /\ config.maxBytes = DefaultMaxBytes
    /\ appendCount >= config.maxEvents )
  => /\ RetainedSeqs =
          [i \in 1..config.maxEvents |-> appendCount - config.maxEvents + i]
     /\ droppedCount = appendCount - config.maxEvents

\* three appends into a buffer of two: one event was evicted
C3_Witness ==
  /\ ~cleared
  /\ config.maxBytes = DefaultMaxBytes
  /\ config.maxEvents = 2
  /\ appendCount = 3
  /\ lastOp = "append"

\* ------------------------------------------------- properties of read
\* the level and source allow-lists, as the options state them
Passes(e, o) ==
  /\ o.levels = {} \/ e.level \in o.levels
  /\ o.sources = {} \/ e.source \in o.sources

\* where the scan of a read with options o starts
EffStart(o) == Max(StartSeq(o.cursor), earliestRetainedSeq)

AfterStartAndPasses(e) == e.seq > EffStart(opts) /\ Passes(e, opts)

\* the retained events the last read had to consider, oldest first
Candidates == SelectSeq(events, AfterStartAndPasses)

\* the limits in force for the last read
Lim == Min(Max(opts.limit, MinLimit), HardLimit)
Cap == Min(Max(opts.maxBytes, MinReadBytes), HardReadBytes)

\* 1 when result r starts with the synthetic warning
WarnCount(r) == IF Len(r.events) > 0 /\ r.events[1].synthetic THEN 1 ELSE 0

\* serialized size of a returned view as read accounts it
ViewSize(v) == IF v.synthetic THEN v.jsonLen ELSE v.jsonLen + JsonSeparatorLen

\* accounted size of the views s[lo..hi]
RECURSIVE SumViews(_, _, _)
SumViews(s, lo, hi) ==
  IF lo > hi THEN 0
  ELSE IF lo = hi THEN ViewSize(s[lo])
  ELSE LET mid == (lo + hi) \div 2 IN
       SumViews(s, lo, mid) + SumViews(s, mid + 1, hi)

\* accounted size of the events of result r
Accounted(r) == EmptyArrayLen + SumViews(r.events, 1, Len(r.events))

\* taking the events s[lo..hi] in order while they fit: f.n counts those
\* taken, f.room is what is left, f.full is set at the first that does not fit
RECURSIVE FitFold(_, _, _, _)
FitFold(s, lo, hi, f) ==
  IF lo > hi \/ f.full THEN f
  ELSE IF lo = hi
    THEN LET size == ViewSize(ToJSON(s[lo], opts.includeStructured)) IN
         IF size > f.room THEN [f EXCEPT !.full = TRUE]
         ELSE [f EXCEPT !.n = @ + 1, !.room = @ - size]
  ELSE LET mid == (lo + hi) \div 2 IN
       FitFold(s, mid + 1, hi, FitFold(s, lo, mid, f))

\* how many leading events of s fit in `room` bytes
FitCount(s, room) ==
  FitFold(s, 1, Len(s), [n |-> 0, room |-> room, full |-> FALSE]).n

\* bytes taken before the scan of the last read: "[]" and the warning if any
StartBytes ==
  EmptyArrayLen + (IF WarnCount(res) = 1 THEN res.events[1].jsonLen ELSE 0)

\* number of candidates of the last read that fit its byte cap
Fitting == FitCount(Candidates, Cap - StartBytes)

\* C4: a read whose requested start lies before the retained window, with no
\* filters and limits that do not bind, returns every retained event, the
\* oldest retained first
C4_ResumesFromEarliest ==
  ( /\ lastOp = "read"
    /\ opts.levels = {} /\ opts.sources = {}
    /\ Len(events) > 0
    /\ StartSeq(opts.cursor) < events[1].seq
    /\ WarnCount(res) + Len(events) <= Lim
    /\ FitCount(events, Cap - StartBytes) = Len(events) )
  => RealSeqs(res) = RetainedSeqs

\* C5: a read with a cursor returned by read whose sequence is below
\* earliestRetainedSeq starts its events with the synthetic warning
C5_StaleCursorWarned ==
  ( /\ lastOp = "read"
    /\ opts.cursor.kind = "json" /\ opts.cursor.v = 1 /\ opts.cursor.sNum
    /\ opts.cursor.s < earliestRetainedSeq )
  => /\ Len(res.events) >= 1
     /\ res.events[1].synthetic
     /\ res.events[1].level = "warn"
     /\ res.events[1].source = "log_buffer"

\* C6: a read with the cursor of the read just before it and the same
\* options returns later events only, in ascending order, and skips no
\* retained event that passes the filters between the two pages
C6_NextPage ==
  readKind = "next" =>
    LET a == RealSeqs(prevRes)
        b == RealSeqs(res)
    IN /\ Ascending(a)
       /\ Ascending(b)
       /\ \A i \in 1..Len(a), j \in 1..Len(b) : a[i] < b[j]
       /\ (Len(a) > 0 /\ Len(b) > 0) =>
            ~ \E i \in 1..Len(events) :
                /\ Passes(events[i], opts)
                /\ a[Len(a)] < events[i].seq
                /\ events[i].seq < b[1]

\* two pages of one event each under a filter, a filtered-out event between
C6_Witness ==
  /\ readKind = "next"
  /\ opts.levels # {}
  /\ Len(RealSeqs(prevRes)) = 1
  /\ Len(RealSeqs(res)) = 1
  /\ RealSeqs(res)[1] = RealSeqs(prevRes)[1] + 2

\* C7 as stated: every returned event, the synthetic warning included, has
\* a level in a non-empty levels list and a source in a non-empty sources list
C7_AllReturnedPassFilters ==
  lastOp = "read" =>
    \A i \in 1..Len(res.events) : Passes(res.events[i], opts)

\* C7 amended: every returned event other than the synthetic warning passes
\* the level and source allow-lists
C7_RealReturnedPassFilters ==
  lastOp = "read" =>
    \A i \in 1..Len(res.events) :
      IsReal(res.events[i]) => Passes(res.events[i], opts)

\* a read under a sources list that returns a matching event while a
\* retained event after the start does not match
C7_Witness ==
  /\ lastOp = "read"
  /\ opts.sources # {}
  /\ Len(RealSeqs(res)) >= 1
  /\ \E i \in 1..Len(events) :
       events[i].seq > EffStart(opts) /\ ~Passes(events[i], opts)

\* C8: the accounted size of the returned events stays within the effective
\* max_bytes; and when the candidates do not all fit and the item limit is
\* not met before the first one that does not fit, truncated and has_more
C8_ByteCap ==
  lastOp = "read" =>
    /\ Accounted(res) <= Cap
    /\ (Fitting < Len(Candidates) /\ WarnCount(res) + Fitting <= Lim)
         => (res.truncated /\ res.has_more)

\* a read cut by the byte cap after it returned an event
C8_Witness ==
  /\ lastOp = "read"
  /\ res.truncated
  /\ Len(RealSeqs(res)) >= 1
  /\ Len(res.events) < Lim

\* C9: a read returns at most min(max(limit, 1), 1000) events, the warning
\* counted; and when a candidate that fits finds the result full, has_more
C9_ItemLimit ==
  lastOp = "read" =>
    /\ Len(res.events) <= Lim
    /\ (WarnCount(res) + Fitting > Lim) => res.has_more

\* a read with limit 2000 from a stale cursor over more than 1000 retained
\* events: the warning and 999 events, stopped by the item limit
C9_Witness ==
  /\ lastOp = "read"
  /\ opts.limit > HardLimit
  /\ WarnCount(res) = 1
  /\ Len(res.events) = HardLimit
  /\ WarnCount(res) + Fitting > Lim
  /\ res.has_more
  /\ ~res.truncated

\* C10: a read assigns no field of the buffer, and the same read made again
\* with nothing between returns the same cursor, has_more, truncated, events
C10_ReadIsPure ==
  /\ [][lastOp' = "read" => UNCHANGED bufVars]_vars
  /\ [](readKind = "again" => res = prevRes)

\* a repeated read that returns the stale-cursor warning
C10_Witness ==
  /\ readKind = "again"
  /\ WarnCount(res) = 1
  /\ droppedCount > 0

\* C11: a read with a cursor that is no valid encoding returns what the read
\* with no cursor and the same other options returns in the same state
C11_MalformedIsAbsent ==
  (lastOp = "read" /\ opts.cursor \in MalformedCursors)
    => res = ReadResult([opts EXCEPT !.cursor = NullCursor])

\* a read with a version-2 cursor naming sequence 1 after events were
\* evicted, which returns an event and no warning
C11_Witness ==
  /\ lastOp = "read"
  /\ opts.cursor = WrongVersionCursor
  /\ earliestRetainedSeq > 1
  /\ Len(res.events) >= 1
  /\ WarnCount(res) = 0

\* C12: clear leaves the sequence counter as it is, empties the list, zeroes
\* the byte total and the dropped counter and sets earliestRetainedSeq to the
\* counter; a read with no cursor right after it returns no events, and the
\* next append returns the counter plus 1
C12_ClearResets ==
  [][ /\ lastOp' = "clear" =>
           /\ seq' = seq
           /\ Len(events') = 0
           /\ totalBytes' = 0
           /\ droppedCount' = 0
           /\ earliestRetainedSeq' = seq'
      /\ (lastOp = "clear" /\ lastOp' = "read" /\ opts'.cursor = NullCursor)
           => res'.events = <<>>
      /\ (lastOp = "clear" /\ lastOp' = "append") => ret' = seq + 1 ]_vars

\* a read with no cursor that returns nothing from a buffer of the default
\* size cleared after two appends
C12_Witness ==
  /\ lastOp = "read"
  /\ opts.cursor = NullCursor
  /\ res.events = <<>>
  /\ cleared
  /\ config = [maxEvents |-> DefaultMaxEvents, maxBytes |-> DefaultMaxBytes]
  /\ seq = 2
  /\ Len(events) = 0
  /\ earliestRetainedSeq = seq

\* ------------------------------------------------ properties of append
\* the matches the global replace of a pattern finds in t from pos on
RECURSIVE MatchesFrom(_, _, _)
MatchesFrom(t, pos, pattern) ==
  LET m == FirstMatch(t, pos, pattern) IN
  IF ~m.ok THEN {} ELSE {m} \cup MatchesFrom(t, m.to + 1, pattern)

\* the marker, quoted as the replacer writes it after a kept label
QuotedMarker == <<" ", "\"", REDACTED, "\"">>

\* C13: every match of a redaction pattern is replaced by the bare marker or
\* by its key label up to the ':' or '=' that precedes the value, followed
\* by the marker; and a message that differs from the appended one in one
\* character of a matched value only is stored as the same message
C13_SecretNotStored ==
  lastOp = "append" =>
    \A k \in 1..Len(REDACTION_PATTERNS) :
      LET t == SanitizeUpTo(args.message, k - 1) IN
      \A m \in MatchesFrom(t, 1, REDACTION_PATTERNS[k]) :
        LET r == Replacement(SubSeq(t, m.from, m.to)) IN
        /\ \/ r = <<REDACTED>>
           \/ \E sep \in m.from..(m.valueFrom - 1) :
                /\ t[sep] \in {":", "="}
                /\ r = SubSeq(t, m.from, sep) \o QuotedMarker
        /\ t = args.message =>
             \A i \in m.valueFrom..m.valueTo :
               t[i] = "s" =>
                 StoredMessage(entry.level, [t EXCEPT ![i] = "x"]) = entry.message

\* the key substrings that mark a value as sensitive
SensitiveParts ==
  { <<"password">>, <<"secret">>, <<"token">>, <<"api", "key">>,
    <<"api", "_", "key">>, <<"authorization">>, <<"cookie">>, <<"credential">> }

NamesSecret(key) == \E part \in SensitiveParts : Includes(ToLowerCase(key), part)

\* no redaction pattern matches anywhere in the text
MatchesNoPattern(t) ==
  \A k \in 1..Len(REDACTION_PATTERNS) : ~FirstMatch(t, 1, REDACTION_PATTERNS[k]).ok

\* out is what the claim allows to be stored for the value in: the marker
\* under every sensitive key at any depth, the same value elsewhere unless a
\* text pattern matches it
RECURSIVE Scrubbed(_, _)
Scrubbed(in, out) ==
  IF in.kind \in {"obj", "arr"}
  THEN /\ out.kind = in.kind
       /\ Len(out.items) = Len(in.items)
       /\ \A i \in 1..Len(in.items) :
            /\ out.items[i].key = in.items[i].key
            /\ IF in.kind = "obj" /\ NamesSecret(in.items[i].key)
               THEN out.items[i].value = Str(<<REDACTED>>)
               ELSE Scrubbed(in.items[i].value, out.items[i].value)
  ELSE IF in.kind = "str"
    THEN MatchesNoPattern(in.text) => out = in
  ELSE out = in

\* the payload with another value under every sensitive key
RECURSIVE OtherSecrets(_)
OtherSecrets(v) ==
  IF v.kind \in {"obj", "arr"}
  THEN [v EXCEPT !.items =
         [i \in 1..Len(v.items) |->
            [key |-> v.items[i].key,
             value |-> IF v.kind = "obj" /\ NamesSecret(v.items[i].key)
                       THEN Str(<<"x">>)
                       ELSE OtherSecrets(v.items[i].value)]]]
  ELSE v

\* C14: in the stored data every value under a sensitive key, at any depth
\* and inside arrays, is the marker, other values that match no text pattern
\* are stored as given, and a payload that differs under sensitive keys only
\* is stored as the same data
C14_SensitiveKeysScrubbed ==
  (lastOp = "append" /\ IsTruthy(args.data)) =>
    /\ Scrubbed(args.data, entry.data)
    /\ StoredData(OtherSecrets(args.data)) = entry.data

\* an append of { url: [ { user_Token: "s" } ] }: the sensitive key lies in
\* an object inside an array inside an object
C14_Witness ==
  /\ lastOp = "append"
  /\ args.data =
       Obj(<<[key |-> <<"url">>,
              value |-> Arr(<<Obj(<<[key |-> <<"user", "_", "Token">>,
                                     value |-> Str(<<"s">>)]>>)>>)]>>)
  /\ entry.data.items[1].value.items[1].value.items[1].value = Str(<<REDACTED>>)

\* number of lines of a text
LineCount(t) == Len(Split(t))

\* C15: a message whose sanitized text has more than 40 lines is stored
\* with at most 41 lines at a non-debug level, whatever its lines are, and
\* with all of its lines at debug level
C15_TruncatedByLevelAndCount ==
  lastOp = "append" =>
    LET sanitized == Sanitize(args.message) IN
    LineCount(sanitized) > MAX_STACK_LINES =>
      IF entry.level # "debug"
      THEN LineCount(entry.message) <= MAX_STACK_LINES + 1
      ELSE entry.message = sanitized

\* C16: an append with a level outside debug, info, warn, error stores the
\* event at level info and returns its sequence number; every retained
\* event has one of the four levels
C16_LevelNormalized ==
  /\ \A i \in 1..Len(events) : events[i].level \in LOG_LEVELS
  /\ lastOp = "append" =>
       /\ entry.level = (IF args.level \in LOG_LEVELS THEN args.level ELSE "info")
       /\ ret = seq
       /\ ret >= 1

\* an append at the unknown level "fatal" that is retained at level info
C16_Witness ==
  /\ lastOp = "append"
  /\ args.level = "fatal"
  /\ entry.level = "info"
  /\ ret = 1
  /\ Len(events) = 1
  /\ events[1].level = "info"

\* ------------------------------------------------ properties of a reader
\* C17: whatever appends, clears and reads are interleaved, a reader that
\* passes to each read the cursor its previous read returned is handed real
\* events whose sequence numbers increase strictly over all its reads: each
\* page is ascending and starts above everything delivered to it before
C17_ReaderNeverSeesTwice ==
  [][ lastOp' = "read" =>
        /\ Ascending(RealSeqs(res'))
        /\ \A i \in 1..Len(RealSeqs(res')) : RealSeqs(res')[i] > seen ]_vars

\* the reader, who was delivered events before, is delivered later events
\* after a clear
C17_Witness ==
  /\ lastOp = "read"
  /\ cleared
  /\ opts.cursor = held
  /\ held.kind = "json"
  /\ Len(RealSeqs(res)) > 0
  /\ seen = RealSeqs(res)[Len(RealSeqs(res))]
  /\ RealSeqs(res)[1] > 1

\* --------------------------------------------- properties of a paging client
\* C18: with no append or clear in between, a client that keeps reading with
\* the returned cursor and the same options is told has_more = false after
\* finitely many calls
C18_PagingEnds ==
  (lastOp = "read") ~> (lastOp = "read" /\ ~res.has_more)

\* ------------------------------------------------- properties of has_more
\* retained events that pass the filters of the last read and lie after the
\* cursor it returned
RemainingMatches ==
  { i \in 1..Len(events) :
      Passes(events[i], opts) /\ events[i].seq > res.cursor.s }

\* C19: when a read returns has_more = true, at least one retained event
\* that passes the filters has a sequence number above the returned cursor
C19_MoreMeansMatchRemains ==
  lastOp = "read" /\ res.has_more => RemainingMatches # {}

\* C20: when a read returns has_more = false, no retained event that passes
\* the filters has a sequence number above the returned cursor
C20_NoMoreMeansNoneRemains ==
  lastOp = "read" /\ ~res.has_more => RemainingMatches = {}

\* a filtered read delivered the matching events of a buffer that also
\* holds others, and reports that nothing is left
C20_Witness ==
  /\ lastOp = "read"
  /\ ~res.has_more
  /\ opts.levels # {}
  /\ Len(RealSeqs(res)) > 0
  /\ Len(events) > Len(RealSeqs(res))

\* ---------------------------------------- properties of the returned cursor
\* C21: the cursor a read returns encodes the sequence of the last real
\* event it returned, or the effective start max(requested start,
\* earliestRetainedSeq) when it returned none; it is never below the
\* requested start
C21_CursorIsLastSeen ==
  lastOp = "read" =>
    /\ res.cursor = EncodeCursor(LastDelivered(res, EffStart(opts)))
    /\ Len(RealSeqs(res)) > 0 =>
          res.cursor.s = RealSeqs(res)[Len(RealSeqs(res))]
    /\ res.cursor.s >= StartSeq(opts.cursor)

\* a read that was passed the cursor of a read that returned events returns
\* none, and its cursor encodes the start it was given
C21_Witness ==
  /\ lastOp = "read"
  /\ readKind = "next"
  /\ Len(RealSeqs(prevRes)) > 0
  /\ Len(RealSeqs(res)) = 0
  /\ res.cursor.s = StartSeq(opts.cursor)
  /\ res.cursor.s > 0

\* ------------------------------------------- properties of the two caps
\* the scan of the last read left a candidate behind
CandidateLeft == Len(RealSeqs(res)) < Len(Candidates)

\* that candidate added to what the result holds would exceed the byte cap
NextOverCap ==
  Accounted(res)
    + ViewSize(ToJSON(Candidates[Len(RealSeqs(res)) + 1],
                      opts.includeStructured)) > Cap

\* C22: the byte cap is tested before the item cap: truncated is true
\* exactly when the scan stopped at a candidate that would exceed the
\* effective max_bytes, also when the result already holds limit events;
\* stopped by the item cap at a candidate that fits, has_more is true and
\* truncated false; truncated implies has_more
C22_ByteCapBeforeItemCap ==
  lastOp = "read" =>
    /\ res.truncated <=> (CandidateLeft /\ NextOverCap)
    /\ (CandidateLeft /\ ~NextOverCap /\ Len(res.events) >= Lim)
         => (res.has_more /\ ~res.truncated)
    /\ res.truncated => res.has_more

\* a result that holds limit events is cut by the byte cap
C22_Witness ==
  /\ lastOp = "read"
  /\ res.truncated
  /\ Len(RealSeqs(res)) >= 1
  /\ Len(res.events) >= Lim

\* ------------------------------------------- properties of the retained list
\* the event append creates for the arguments in
NewEvent(in) ==
  LogEvent(seq + 1, ValidLevel(in.level), in.source, in.msgLen, in.msgEsc,
           in.dataLen)

\* the event alone is within both bounds of the configuration
FitsAlone(e) == config.maxEvents >= 1 /\ e.size <= config.maxBytes

\* C23 as stated: right after append returns s, the event with sequence s is
\* the last retained event, whatever its size
C23_NewestRetained ==
  lastOp = "append" =>
    /\ Len(events) >= 1
    /\ events[Len(events)].seq = ret

\* C23: right after append returns s, the event with sequence s is the last
\* retained event if it is within maxEvents and maxBytes on its own, and
\* otherwise the buffer is empty: the new event is never dropped while an
\* older one is kept
C23_NewestRetainedIfItFits ==
  [][ lastOp' = "append" =>
        \E in \in AppendInputs :
          /\ events' = AppendFields(in).events
          /\ ret' = seq + 1
          /\ FitsAlone(NewEvent(in)) =>
                /\ Len(events') >= 1
                /\ events'[Len(events')] = NewEvent(in)
          /\ ~FitsAlone(NewEvent(in)) => events' = <<>> ]_vars

\* an append into a buffer that admits events left the buffer empty
C23_Witness ==
  /\ lastOp = "append"
  /\ config.maxEvents >= 1
  /\ ret = seq
  /\ Len(events) = 0

\* C24: earliestRetainedSeq is at most the sequence of the first retained
\* event when the buffer is not empty and equals the sequence counter when
\* it is empty; it never decreases, and a read and an append that evicts
\* nothing leave it unchanged
C24_EarliestRetained ==
  /\ [](IF Len(events) > 0 THEN earliestRetainedSeq <= events[1].seq
                           ELSE earliestRetainedSeq = seq)
  /\ [][ /\ earliestRetainedSeq' >= earliestRetainedSeq
         /\ lastOp' = "read" => earliestRetainedSeq' = earliestRetainedSeq
         /\ (lastOp' = "append" /\ droppedCount' = droppedCount)
              => earliestRetainedSeq' = earliestRetainedSeq ]_vars

\* after a clear, appends evicted an event and the earliest retained
\* sequence moved up to the first event kept
C24_Witness ==
  /\ cleared
  /\ lastOp = "append"
  /\ droppedCount > 0
  /\ Len(events) > 0
  /\ earliestRetainedSeq = events[1].seq
  /\ earliestRetainedSeq > 1

\* sum of the size estimates of the events evs[lo..hi]
RECURSIVE SumSizes(_, _, _)
SumSizes(evs, lo, hi) ==
  IF lo > hi THEN 0
  ELSE IF lo = hi THEN evs[lo].size
  ELSE LET mid == (lo + hi) \div 2 IN
       SumSizes(evs, lo, mid) + SumSizes(evs, mid + 1, hi)

\* C25: in every reachable state totalBytes is the sum of the size
\* estimates of the retained events, 0 when the buffer is empty
C25_TotalBytesIsSum ==
  /\ totalBytes = SumSizes(events, 1, Len(events))
  /\ Len(events) = 0 => totalBytes = 0

\* events were evicted under the byte bound and two are retained
C25_Witness ==
  /\ config.maxBytes = 800
  /\ droppedCount > 0
  /\ Len(events) >= 2
  /\ totalBytes = events[1].size + events[2].size

\* C26: the retained list is in strictly ascending sequence order and holds
\* consecutive sequence numbers that end at the sequence counter: when it
\* is not empty its sequences are seq - eventCount + 1 .. seq
C26_ConsecutiveToCounter ==
  /\ Ascending(RetainedSeqs)
  /\ RetainedSeqs = [i \in 1..Len(events) |-> seq - Len(events) + i]

\* two events retained after an eviction and, earlier, a clear
C26_Witness ==
  /\ cleared
  /\ droppedCount > 0
  /\ Len(events) = 2
  /\ events[2].seq = seq

\* ------------------------------------------- properties of truncation
\* the lines of the sanitized message append was given, and those it stored
LinesGiven == Split(Sanitize(args.message))
LinesStored == Split(entry.message)

\* indexes of the given lines that are stack frames
FramesGiven == {i \in 1..Len(LinesGiven) : StartsWithAt(LinesGiven[i])}

\* C27: when truncation shortens a message that has a stack-frame line, the
\* lines before the first frame line are stored in order and the number in
\* the trailer "... (N more stack frames)" is the number of given lines that
\* are absent from the stored message, wherever the first frame line is
C27_TrailerCountsOmitted ==
  ( /\ lastOp = "append"
    /\ entry.level # "debug"
    /\ FramesGiven # {}
    /\ Len(LinesStored) < Len(LinesGiven) )
  => LET before == SetMin(FramesGiven) - 1
         absent == Len(LinesGiven) - (Len(LinesStored) - 1)
     IN /\ SubSeq(LinesStored, 1, before) = SubSeq(LinesGiven, 1, before)
        /\ LinesStored[Len(LinesStored)] =
             << "... (" \o ToString(absent) \o " more stack frames)" >>

\* ------------------------------------------ properties of the dropped count
\* C28: when a read returns the synthetic warning, the number of dropped
\* events its message quotes (droppedCount, which a read leaves as it is)
\* is at least 1, also in states reached through clear
C28_WarningQuotesDrops ==
  (lastOp = "read" /\ WarnCount(res) = 1) => droppedCount >= 1

\* C29 as stated: no operation, clear included, makes droppedCount smaller
C29_DroppedNeverDecreases ==
  [][droppedCount' >= droppedCount]_vars

\* C29: append and read never make droppedCount smaller; clear sets it to 0
\* and is the only operation that can make it smaller
C29_DroppedDecreasesOnlyByClear ==
  [][ /\ lastOp' # "clear" => droppedCount' >= droppedCount
      /\ lastOp' = "clear" => droppedCount' = 0 ]_vars

\* a clear of a buffer that drops every event it is given
C29_Witness ==
  /\ lastOp = "clear"
  /\ config.maxEvents = 0
  /\ appendCount >= 2
  /\ ret = seq
  /\ droppedCount = 0
\* C30: a call of read_log through callTool never appends to the session
\* log buffer: while the call runs and once it has returned or rejected,
\* the sequence counter and the retained events are those of the moment
\* the call was made.
C30_ReadLogAppendsNothing ==
  call.name = "read_log" =>
    /\ seq = call.before.seq
    /\ events = call.before.events

\* a read_log call has ended with an error on a buffer that holds events of
\* earlier tool calls, and its read returned some of them
C30_Witness ==
  /\ call.name = "read_log"
  /\ call.pc = "done"
  /\ call.isError
  /\ Len(res.events) > 0
  /\ \E i \in 1..Len(events) : events[i].source = "test_run"

\* the events appended since the running or last callTool was entered
CallEvents ==
  LET SinceCall(e) == e.seq > call.before.seq IN SelectSeq(events, SinceCall)

\* the event is the one logger.info(`Tool "${name}" started`, ...) appends
IsStarted(e, name) ==
  /\ e.source = name
  /\ e.level = "info"
  /\ e.msgLen = StartedLog(name).msgLen
  /\ e.msgEsc = StartedLog(name).msgEsc

\* the event is one of the 'completed' and 'failed' events of callTool
IsOutcome(e, name) ==
  /\ e.source = name
  /\ e.msgEsc = 2
  /\ \/ e.level = "info" /\ e.msgLen = CompletedLog(name).msgLen
     \/ e.level = "error" /\ e.msgLen \in {FailedLog(name).msgLen,
                                           ThrownLog(name).msgLen}

\* positions of the outcome events among the events of the call
Outcomes ==
  {i \in 1..Len(CallEvents) : IsOutcome(CallEvents[i], call.name)}

\* C31: a callTool invocation for a tool other than read_log appends the
\* 'started' info event of the tool first and, by the time it has returned
\* or rejected, exactly one 'completed' or 'failed' event of the tool
\* after it.
C31_StartedThenOneOutcome ==
  (call.pc = "done" /\ call.name # "read_log") =>
    /\ Len(CallEvents) >= 2
    /\ IsStarted(CallEvents[1], call.name)
    /\ Cardinality(Outcomes) = 1
    /\ \A i \in Outcomes : i > 1

\* the call has ended in an error: the response is an error response
\* (response.addError was called) or the standard tool threw
EndedInError ==
  /\ call.pc = "done"
  /\ \/ call.isError
     \/ call.outcome = "rejected" /\ call.name \notin CustomTools

\* C32: when a tool call other than read_log ends in an error, an
\* error-level event whose source is the tool name was appended during
\* the call.
C32_ErrorIsLogged ==
  (EndedInError /\ call.name # "read_log") =>
    \E i \in 1..Len(CallEvents) :
      /\ CallEvents[i].level = "error"
      /\ CallEvents[i].source = call.name

\* C33: whatever the order of the timer, 'close' and 'error' callbacks, a
\* result resolved after the timeout timer fired has timedOut = true and
\* exitCode = -1, and a result resolved before it fired has
\* timedOut = false and leaves the timer cancelled.
C33_TimeoutDecidesResult ==
  run.pc = "resolved" =>
    /\ run.result.timerFired =>
         run.result.timedOut /\ run.result.exitCode = -1
    /\ ~run.result.timerFired =>
         ~run.result.timedOut /\ run.timer \in {"none", "cleared"}

====
